---- MODULE Spec2Model ----
(***************************************************************************)
(* The deployment session of opctl (cmd/opctl/commands/deploy.go):         *)
(* postDeploymentRequest dials the optimus service, registers the project, *)
(* deploys the resources of every configured datastore and then the jobs,  *)
(* reading each response stream one message at a time.                     *)
(*                                                                         *)
(* The service, the spec repositories and the adapter are the environment: *)
(* every result they can hand back (a value, an error, a streamed message, *)
(* end-of-stream) is a nondeterministic input of the action that makes the *)
(* call.  sent and streams record what crossed the connection.             *)
(*                                                                         *)
(* Three more parts of the program have a specification of their own, in   *)
(* which the session is at rest: the duration grammar of the window fields *)
(* (GrammarSpec), the job adapter ToSpec/FromSpec of store/local           *)
(* (AdapterSpec), and the command that adds a hook to a job (SurveySpec).  *)
(***************************************************************************)
EXTENDS Integers, Sequences, FiniteSets, TLC

\* ---- bounds ----
MaxStores == 2      \* datastores configured in datastoreSpecFs
MaxSpecs == 2       \* specs the repositories of the project hold altogether
MaxRecv == 3        \* messages delivered over all response streams of a session
MaxLen == 5         \* characters of a text handed to the duration parser
MaxDeps == 2        \* dependency entries of an on-disk job
MaxHooks == 2       \* hooks of a job
MaxSurveys == 3     \* runs of the hook command on a job

VARIABLES
    pc,                   \* position in postDeploymentRequest
    ignoreResources,      \* --ignore-resources
    ignoreJobDeployment,  \* --ignore-jobs
    datastoreSpecFs,      \* names of the configured datastores
    visited,              \* datastores the range loop has already taken
    storeName,            \* datastore of the current iteration (0: none)
    dialResult,           \* result of createConnection
    registerResponse,     \* result of RegisterProject
    resourceSpecs,        \* specs loaded for the current datastore
    adaptedSpecs,         \* names of the adapted resource specs
    jobSpecs,             \* specs loaded from jobSpecRepo
    adaptedJobSpecs,      \* names of the adapted job specs
    deployCounter, totalSpecs,
    jobCounter, totalJobs,
    err,                  \* the error the session ends with
    log,                  \* lines written to the logger
    sent,                 \* requests issued on the connection, in order
    streams,              \* response streams opened, with what each delivered
    recvCount             \* messages received so far in the session

\* the duration grammar of the job adapter (store/local)
VARIABLES
    str,                  \* the text of a window field
    at,                   \* position of its resolution: "text", "fallback", "done"
    months,               \* what tryParsingInMonths returned
    duration              \* what the field resolved to

session == <<pc, ignoreResources, ignoreJobDeployment, datastoreSpecFs, visited,
             storeName, dialResult, registerResponse, resourceSpecs, adaptedSpecs, jobSpecs,
             adaptedJobSpecs, deployCounter, totalSpecs, jobCounter, totalJobs,
             err, log, sent, streams, recvCount>>
grammar == <<str, at, months, duration>>

\* the job adapter (store/local)
VARIABLES
    conf,                 \* the on-disk job
    step,                 \* "conf", then "spec" or "refused", then "model"
    job,                  \* what ToSpec returned
    parsed                \* what FromSpec returned

adapter == <<conf, step, job, parsed>>

\* the command that adds a hook to a job (cmd)
VARIABLES
    jobSpecHooks,         \* the hooks of the job in jobSpecRepo, by unit name
    surveyPc,             \* "prompt": no run under way, "surveyed": survey returned
    surveyed,             \* what createHookSurvey returned
    surveys               \* runs of the command so far

survey == <<jobSpecHooks, surveyPc, surveyed, surveys>>
vars == <<session, grammar, adapter, survey>>

\* ---- values ----
\* error causes a gRPC call can fail with
Causes == {"DeadlineExceeded", "Unavailable"}

NoErr == [msg |-> "nil", cause |-> "nil", name |-> 0, detail |-> ""]
Error(m, c, n, d) == [msg |-> m, cause |-> c, name |-> n, detail |-> d]

\* one logger line: the format, its numeric arguments, the item and the text
Line(f, a, b, n, t) == [fmt |-> f, n |-> a, total |-> b, name |-> n, text |-> t]
Println(t) == Line(t, 0, 0, 0, "")

TimeoutLine == Println("deployment process took too long, timing out")
UnreachableLine == Println("can't reach optimus service")

\* a spec on disk: its name and whether the adapter can serialize it
SpecList(n, bad) == [i \in 1..n |-> [name |-> i, adaptable |-> i \notin bad]]

\* what the service can stream back for a batch of n items: a terminal ack
\* for any item of the batch, in any order and possibly repeated, or a
\* progress event (its item is not varied: the code only prints it)
Texts == {"detail"}
Responses(n) ==
    [ack : {TRUE}, success : BOOLEAN, name : 1..n, message : Texts]
    \cup [ack : {FALSE}, success : BOOLEAN, name : {k \in 1..n : k = 1}, message : Texts]

Request(r, s, items) == [rpc |-> r, store |-> s, items |-> items]

\* ---- pure pieces of the code ----

\* a variant that takes every error for a timeout
IsDeadlineExceeded_AnyError(cause) == cause # "nil"

\* errors.Is(err, context.DeadlineExceeded)
IsDeadlineExceeded(cause) == cause = "DeadlineExceeded"

\* a variant that tests the transport error only
RegisterError_SuccessUnchecked(res) ==
    IF res.cause # "nil"
    THEN Error("failed to update project configurations", res.cause, 0, "")
    ELSE NoErr

\* the tests on RegisterProject's result: a transport error is wrapped, a
\* response with success=false becomes an error carrying its message
RegisterError(res) ==
    IF res.cause # "nil"
    THEN Error("failed to update project configurations", res.cause, 0, "")
    ELSE IF ~res.success
         THEN Error("failed to update project configurations", "nil", 0, res.message)
         ELSE NoErr

\* a variant that skips a rejected spec and goes on with the rest
RECURSIVE AdaptResources_SkipsRejected(_, _, _)
AdaptResources_SkipsRejected(specs, i, adapted) ==
    IF i > Len(specs) THEN [err |-> NoErr, adapted |-> adapted]
    ELSE IF ~specs[i].adaptable
         THEN AdaptResources_SkipsRejected(specs, i + 1, adapted)
         ELSE AdaptResources_SkipsRejected(specs, i + 1, Append(adapted, specs[i].name))

\* the resource adaptation loop: the first spec ToResourceProto rejects ends
\* it with an error, otherwise every spec is appended in order
RECURSIVE AdaptResources(_, _, _)
AdaptResources(specs, i, adapted) ==
    IF i > Len(specs) THEN [err |-> NoErr, adapted |-> adapted]
    ELSE IF ~specs[i].adaptable
         THEN [err |-> Error("failed to serialize", "adapter", specs[i].name, ""),
               adapted |-> adapted]
         ELSE AdaptResources(specs, i + 1, Append(adapted, specs[i].name))

\* the job adaptation loop, the same shape over ToJobProto
RECURSIVE AdaptJobs(_, _, _)
AdaptJobs(specs, i, adapted) ==
    IF i > Len(specs) THEN [err |-> NoErr, adapted |-> adapted]
    ELSE IF ~specs[i].adaptable
         THEN [err |-> Error("failed to serialize", "adapter", specs[i].name, ""),
               adapted |-> adapted]
         ELSE AdaptJobs(specs, i + 1, Append(adapted, specs[i].name))

\* the error branch after DeployResourceSpecification: lines logged, error returned
ResourceCallFailed(cause) ==
    [lines |-> IF IsDeadlineExceeded(cause) THEN <<TimeoutLine>> ELSE <<>>,
     err |-> Error("deployement failed", cause, 0, "")]

\* the error branch after DeployJobSpecification
JobCallFailed(cause) ==
    [lines |-> IF IsDeadlineExceeded(cause) THEN <<TimeoutLine>> ELSE <<>>,
     err |-> Error("deployement failed", cause, 0, "")]

\* a variant that leaves the loop on every error
ResourceRecvFailed_ErrorBreaks(cause) ==
    [ctl |-> "break", lines |-> <<>>, err |-> NoErr]

\* the error branch after Recv on a resource stream: io.EOF leaves the loop,
\* anything else returns
ResourceRecvFailed(cause) ==
    IF cause = "EOF"
    THEN [ctl |-> "break", lines |-> <<>>, err |-> NoErr]
    ELSE [ctl |-> "return", lines |-> <<>>,
          err |-> Error("failed to receive deployment ack", cause, 0, "")]

\* a variant of the job stream's error branch that takes io.EOF for a failure
JobRecvFailed_EOFIsError(cause) ==
    [ctl |-> "return", lines |-> <<>>,
     err |-> Error("failed to receive deployment ack", cause, 0, "")]
\* the error branch after Recv on the job stream
JobRecvFailed(cause) ==
    IF cause = "EOF"
    THEN [ctl |-> "break", lines |-> <<>>, err |-> NoErr]
    ELSE [ctl |-> "return", lines |-> <<>>,
          err |-> Error("failed to receive deployment ack", cause, 0, "")]

\* a variant whose failed ack is logged and read past
OnResourceResponse_FailedAckContinues(resp, counter, total) ==
    IF resp.ack
    THEN IF ~resp.success
         THEN [ctl |-> "next", counter |-> counter,
               lines |-> <<Line("unable to deploy: %s %s", 0, 0, resp.name, resp.message)>>,
               err |-> NoErr]
         ELSE [ctl |-> "next", counter |-> counter + 1,
               lines |-> <<Line("%d/%d. %s successfully deployed",
                                counter + 1, total, resp.name, "")>>,
               err |-> NoErr]
    ELSE [ctl |-> "next", counter |-> counter,
          lines |-> <<Line("info '%s': %s", 0, 0, resp.name, resp.message)>>,
          err |-> NoErr]

\* a variant that counts an ack before it tests its success
OnResourceResponse_CountsEveryAck(resp, counter, total) ==
    IF resp.ack
    THEN IF ~resp.success
         THEN [ctl |-> "return", counter |-> counter + 1, lines |-> <<>>,
               err |-> Error("unable to deploy", "nil", resp.name, resp.message)]
         ELSE [ctl |-> "next", counter |-> counter + 1,
               lines |-> <<Line("%d/%d. %s successfully deployed",
                                counter + 1, total, resp.name, "")>>,
               err |-> NoErr]
    ELSE [ctl |-> "next", counter |-> counter,
          lines |-> <<Line("info '%s': %s", 0, 0, resp.name, resp.message)>>,
          err |-> NoErr]

\* the body of the resource receive loop for one message: what the loop does
\* next, the counter, the lines logged and the error returned
OnResourceResponse(resp, counter, total) ==
    IF resp.ack
    THEN IF ~resp.success
         THEN [ctl |-> "return", counter |-> counter, lines |-> <<>>,
               err |-> Error("unable to deploy", "nil", resp.name, resp.message)]
         ELSE [ctl |-> "next", counter |-> counter + 1,
               lines |-> <<Line("%d/%d. %s successfully deployed",
                                counter + 1, total, resp.name, "")>>,
               err |-> NoErr]
    ELSE [ctl |-> "next", counter |-> counter,
          lines |-> <<Line("info '%s': %s", 0, 0, resp.name, resp.message)>>,
          err |-> NoErr]

\* a variant that tests success before ack
OnJobResponse_SuccessTestedFirst(resp, counter, total) ==
    IF ~resp.success
    THEN [ctl |-> "return", counter |-> counter, lines |-> <<>>,
          err |-> Error("unable to deploy", "nil", resp.name, resp.message)]
    ELSE IF resp.ack
         THEN [ctl |-> "next", counter |-> counter + 1,
               lines |-> <<Line("%d/%d. %s successfully deployed",
                                counter + 1, total, resp.name, "")>>,
               err |-> NoErr]
         ELSE [ctl |-> "next", counter |-> counter,
               lines |-> <<Line("info '%s': %s", 0, 0, resp.name, resp.message)>>,
               err |-> NoErr]

\* a variant that prints the counter before incrementing it
OnJobResponse_PrintsStaleCounter(resp, counter, total) ==
    IF resp.ack
    THEN IF ~resp.success
         THEN [ctl |-> "return", counter |-> counter, lines |-> <<>>,
               err |-> Error("unable to deploy", "nil", resp.name, resp.message)]
         ELSE [ctl |-> "next", counter |-> counter + 1,
               lines |-> <<Line("%d/%d. %s successfully deployed",
                                counter, total, resp.name, "")>>,
               err |-> NoErr]
    ELSE [ctl |-> "next", counter |-> counter,
          lines |-> <<Line("info '%s': %s", 0, 0, resp.name, resp.message)>>,
          err |-> NoErr]

\* the body of the job receive loop for one message
OnJobResponse(resp, counter, total) ==
    IF resp.ack
    THEN IF ~resp.success
         THEN [ctl |-> "return", counter |-> counter, lines |-> <<>>,
               err |-> Error("unable to deploy", "nil", resp.name, resp.message)]
         ELSE [ctl |-> "next", counter |-> counter + 1,
               lines |-> <<Line("%d/%d. %s successfully deployed",
                                counter + 1, total, resp.name, "")>>,
               err |-> NoErr]
    ELSE [ctl |-> "next", counter |-> counter,
          lines |-> <<Line("info '%s': %s", 0, 0, resp.name, resp.message)>>,
          err |-> NoErr]

\* the jobs branch: skipped by --ignore-jobs, which completes the session
EnterJobs(lines) ==
    IF ~ignoreJobDeployment
    THEN [pc |-> "JobLoad", log |-> Append(lines, Println("deploying jobs"))]
    ELSE [pc |-> "Completed",
          log |-> lines \o <<Println("skipping job deployment"),
                             Println("deployment completed successfully")>>]

\* a variant with the flag's test inverted
EnterResources_FlagInverted(lines) ==
    IF ignoreResources
    THEN [pc |-> "ResLoop", log |-> lines]
    ELSE EnterJobs(Append(lines, Println("skipping resource deployment")))

\* the resources branch: skipped by --ignore-resources
EnterResources(lines) ==
    IF ~ignoreResources
    THEN [pc |-> "ResLoop", log |-> lines]
    ELSE EnterJobs(Append(lines, Println("skipping resource deployment")))

\* the stream opened last, and that stream after one more delivery
Current == streams[Len(streams)]
Delivered(resp) == [streams EXCEPT ![Len(streams)].msgs = Append(@, resp)]
Ended(how) == [streams EXCEPT ![Len(streams)].end = how]
NewStream(s) == [store |-> s, msgs |-> <<>>, end |-> "open"]

\* the specs loaded by the iterations done so far: each of them was sent whole
RECURSIVE SpecsLoaded(_)
SpecsLoaded(requests) ==
    IF requests = <<>> THEN 0
    ELSE Len(Head(requests).items) + SpecsLoaded(Tail(requests))

\* no text is being resolved
NoDuration == [hours |-> 0, exact |-> TRUE]
GrammarAtRest ==
    /\ str = <<>>
    /\ at = "rest"
    /\ months = [sz |-> NoDuration, err |-> "none"]
    /\ duration = [val |-> NoDuration, err |-> "none"]

\* no job is being adapted
AdapterAtRest ==
    /\ conf = <<>>
    /\ step = "rest"
    /\ job = <<>>
    /\ parsed = <<>>

\* the hook command is not in use
NotSurveyed == [asked |-> FALSE, selected |-> "", hooks |-> <<>>, err |-> "none"]
SurveyAtRest ==
    /\ jobSpecHooks = <<>>
    /\ surveyPc = "rest"
    /\ surveyed = NotSurveyed
    /\ surveys = 0

\* ---- the session ----

Init ==
    /\ pc = "Idle"
    /\ ignoreResources \in BOOLEAN
    /\ ignoreJobDeployment \in BOOLEAN
    /\ datastoreSpecFs \in {1..k : k \in 0..MaxStores}
    /\ visited = {}
    /\ storeName = 0
    /\ dialResult = "none"
    /\ registerResponse = [cause |-> "none", success |-> FALSE, message |-> ""]
    /\ resourceSpecs = <<>>
    /\ adaptedSpecs = <<>>
    /\ jobSpecs = <<>>
    /\ adaptedJobSpecs = <<>>
    /\ deployCounter = 0 /\ totalSpecs = 0
    /\ jobCounter = 0 /\ totalJobs = 0
    /\ err = NoErr
    /\ log = <<>>
    /\ sent = <<>>
    /\ streams = <<>>
    /\ recvCount = 0
    /\ GrammarAtRest
    /\ AdapterAtRest
    /\ SurveyAtRest

\* what the session reads and never writes: its flags, and the state of the
\* adapter, which the deploy command does not call
flags == <<ignoreResources, ignoreJobDeployment, datastoreSpecFs, grammar, adapter,
           survey>>
resVars == <<visited, storeName, resourceSpecs, adaptedSpecs, deployCounter, totalSpecs>>
jobVars == <<jobSpecs, adaptedJobSpecs, jobCounter, totalJobs>>

\* the deploy command calls postDeploymentRequest
Start ==
    /\ pc = "Idle"
    /\ pc' = "Connecting"
    /\ UNCHANGED <<flags, resVars, jobVars, dialResult, registerResponse, err, log, sent,
                   streams, recvCount>>

\* createConnection under the dial timeout
Dial ==
    /\ pc = "Connecting"
    /\ \E cause \in {"nil"} \cup Causes :
         /\ dialResult' = cause
         /\ IF cause # "nil"
            THEN /\ log' = IF IsDeadlineExceeded(cause)
                           THEN Append(log, UnreachableLine) ELSE log
                 /\ err' = Error("dial", cause, 0, "")
                 /\ pc' = "Failed"
            ELSE /\ pc' = "RegisteringProject"
                 /\ UNCHANGED <<log, err>>
    /\ UNCHANGED <<flags, resVars, jobVars, registerResponse, sent, streams,
                   recvCount>>

\* what RegisterProject can return: an error, or a response
RegisterResults ==
    {[cause |-> c, success |-> FALSE, message |-> "detail"] : c \in Causes}
    \cup [cause : {"nil"}, success : BOOLEAN, message : Texts]

\* runtime.RegisterProject and the test of its result
RegisterProject ==
    /\ pc = "RegisteringProject"
    /\ \E res \in RegisterResults :
         /\ registerResponse' = res
         /\ sent' = Append(sent, Request("RegisterProject", 0, <<>>))
         /\ IF RegisterError(res) # NoErr
            THEN /\ err' = RegisterError(res)
                 /\ pc' = "Failed"
                 /\ log' = log
            ELSE LET nxt == EnterResources(
                               Append(log, Println("updated project configuration")))
                 IN /\ pc' = nxt.pc
                    /\ log' = nxt.log
                    /\ err' = err
    /\ UNCHANGED <<flags, resVars, jobVars, dialResult, streams, recvCount>>

\* the range over datastoreSpecFs is exhausted
ResourcesDone ==
    /\ pc = "ResLoop"
    /\ visited = datastoreSpecFs
    /\ LET nxt == EnterJobs(Append(log, Println("deployed resources")))
       IN /\ pc' = nxt.pc
          /\ log' = nxt.log
    /\ UNCHANGED <<flags, resVars, jobVars, dialResult, registerResponse, err, sent,
                   streams, recvCount>>

\* a variant of the range in which a key comes up again
Remaining_Revisits == datastoreSpecFs
\* the keys the range over datastoreSpecFs has yet to yield: each key once
Remaining == datastoreSpecFs \ visited

\* GetByName or resourceSpecRepo.GetAll fails: errExit logs the error and ends
\* the process
ResourceLoadExit ==
    /\ pc = "ResLoop"
    /\ \E s \in Remaining, what \in {"unsupported datastore", "GetAll"} :
         /\ storeName' = s
         /\ visited' = visited \cup {s}
         /\ log' = Append(log, Line(what, 0, 0, s, ""))
         /\ err' = Error("exit", what, s, "")
    /\ pc' = "Failed"
    /\ UNCHANGED <<flags, jobVars, dialResult, registerResponse, resourceSpecs, adaptedSpecs,
                   deployCounter, totalSpecs, sent, streams, recvCount>>

\* one iteration of the range loop up to the call: load the datastore's
\* specs and adapt them
ResourcePrepare ==
    /\ pc = "ResLoop"
    /\ \E s \in Remaining, n \in 0..(MaxSpecs - SpecsLoaded(sent)) :
       \E bad \in SUBSET (1..n) :
         LET specs == SpecList(n, bad)
             r == AdaptResources(specs, 1, <<>>)
         IN /\ storeName' = s
            /\ visited' = visited \cup {s}
            /\ resourceSpecs' = specs
            /\ adaptedSpecs' = r.adapted
            /\ err' = r.err
            /\ pc' = IF r.err # NoErr THEN "Failed" ELSE "ResSend"
    /\ UNCHANGED <<flags, jobVars, dialResult, registerResponse, deployCounter, totalSpecs,
                   log, sent, streams, recvCount>>

\* runtime.DeployResourceSpecification
DeployResourceSpecification ==
    /\ pc = "ResSend"
    /\ sent' = Append(sent, Request("DeployResourceSpecification", storeName, adaptedSpecs))
    /\ \E cause \in {"nil"} \cup Causes :
         IF cause # "nil"
         THEN /\ log' = log \o ResourceCallFailed(cause).lines
              /\ err' = ResourceCallFailed(cause).err
              /\ pc' = "Failed"
              /\ UNCHANGED <<streams, deployCounter, totalSpecs>>
         ELSE /\ streams' = Append(streams, NewStream(storeName))
              /\ deployCounter' = 0
              /\ totalSpecs' = Len(adaptedSpecs)
              /\ pc' = "ResRecv"
              /\ UNCHANGED <<log, err>>
    /\ UNCHANGED <<flags, jobVars, dialResult, registerResponse, visited, storeName,
                   resourceSpecs, adaptedSpecs, recvCount>>

\* respStream.Recv returns an error (io.EOF included) on a resource stream
ResourceRecvError ==
    /\ pc = "ResRecv"
    /\ \E cause \in {"EOF"} \cup Causes :
         LET r == ResourceRecvFailed(cause)
         IN /\ streams' = Ended(cause)
            /\ err' = r.err
            /\ log' = log \o r.lines
            /\ pc' = IF r.ctl = "break" THEN "ResLoop" ELSE "Failed"
    /\ UNCHANGED <<flags, resVars, jobVars, dialResult, registerResponse, sent, recvCount>>

\* respStream.Recv returns a message on a resource stream
ResourceRecv ==
    /\ pc = "ResRecv"
    /\ recvCount < MaxRecv
    /\ \E resp \in Responses(Len(resourceSpecs)) :
         LET r == OnResourceResponse(resp, deployCounter, totalSpecs)
         IN /\ streams' = Delivered(resp)
            /\ deployCounter' = r.counter
            /\ log' = log \o r.lines
            /\ err' = r.err
            /\ pc' = IF r.ctl = "return" THEN "Failed" ELSE "ResRecv"
    /\ recvCount' = recvCount + 1
    /\ UNCHANGED <<flags, jobVars, dialResult, registerResponse, visited, storeName,
                   resourceSpecs, adaptedSpecs, totalSpecs, sent>>

\* jobSpecRepo.GetAll and the adaptation loop
JobPrepare ==
    /\ pc = "JobLoad"
    /\ \/ /\ err' = Error("GetAll", "repository", 0, "")
          /\ pc' = "Failed"
          /\ UNCHANGED <<jobSpecs, adaptedJobSpecs>>
       \/ \E n \in 0..(MaxSpecs - SpecsLoaded(sent)) : \E bad \in SUBSET (1..n) :
            LET specs == SpecList(n, bad)
                r == AdaptJobs(specs, 1, <<>>)
            IN /\ jobSpecs' = specs
               /\ adaptedJobSpecs' = r.adapted
               /\ err' = r.err
               /\ pc' = IF r.err # NoErr THEN "Failed" ELSE "JobSend"
    /\ UNCHANGED <<flags, resVars, dialResult, registerResponse, jobCounter, totalJobs, log,
                   sent, streams, recvCount>>

\* runtime.DeployJobSpecification
DeployJobSpecification ==
    /\ pc = "JobSend"
    /\ sent' = Append(sent, Request("DeployJobSpecification", 0, adaptedJobSpecs))
    /\ \E cause \in {"nil"} \cup Causes :
         IF cause # "nil"
         THEN /\ log' = log \o JobCallFailed(cause).lines
              /\ err' = JobCallFailed(cause).err
              /\ pc' = "Failed"
              /\ UNCHANGED <<streams, jobCounter, totalJobs>>
         ELSE /\ streams' = Append(streams, NewStream(0))
              /\ jobCounter' = 0
              /\ totalJobs' = Len(jobSpecs)
              /\ pc' = "JobRecv"
              /\ UNCHANGED <<log, err>>
    /\ UNCHANGED <<flags, resVars, dialResult, registerResponse, jobSpecs, adaptedJobSpecs,
                   recvCount>>

\* respStream.Recv returns an error (io.EOF included) on the job stream
JobRecvError ==
    /\ pc = "JobRecv"
    /\ \E cause \in {"EOF"} \cup Causes :
         LET r == JobRecvFailed(cause)
         IN /\ streams' = Ended(cause)
            /\ err' = r.err
            /\ IF r.ctl = "break"
               THEN /\ pc' = "Completed"
                    /\ log' = log \o r.lines
                                  \o <<Println("deployed jobs"),
                                       Println("deployment completed successfully")>>
               ELSE /\ pc' = "Failed"
                    /\ log' = log \o r.lines
    /\ UNCHANGED <<flags, resVars, jobVars, dialResult, registerResponse, sent, recvCount>>

\* respStream.Recv returns a message on the job stream
JobRecv ==
    /\ pc = "JobRecv"
    /\ recvCount < MaxRecv
    /\ \E resp \in Responses(Len(jobSpecs)) :
         LET r == OnJobResponse(resp, jobCounter, totalJobs)
         IN /\ streams' = Delivered(resp)
            /\ jobCounter' = r.counter
            /\ log' = log \o r.lines
            /\ err' = r.err
            /\ pc' = IF r.ctl = "return" THEN "Failed" ELSE "JobRecv"
    /\ recvCount' = recvCount + 1
    /\ UNCHANGED <<flags, resVars, dialResult, registerResponse, jobSpecs, adaptedJobSpecs,
                   totalJobs, sent>>

Next ==
    \/ Start
    \/ Dial
    \/ RegisterProject
    \/ ResourcesDone
    \/ ResourceLoadExit
    \/ ResourcePrepare
    \/ DeployResourceSpecification
    \/ ResourceRecvError
    \/ ResourceRecv
    \/ JobPrepare
    \/ DeployJobSpecification
    \/ JobRecvError
    \/ JobRecv

Spec == Init /\ [][Next]_vars

TypeOK ==
    /\ pc \in {"Idle", "Connecting", "RegisteringProject", "ResLoop", "ResSend",
               "ResRecv", "JobLoad", "JobSend", "JobRecv", "Completed", "Failed"}
    /\ deployCounter \in 0..MaxRecv /\ jobCounter \in 0..MaxRecv
    /\ recvCount \in 0..MaxRecv
    /\ visited \subseteq datastoreSpecFs

\* ---- what the claims speak of ----

Lines == {log[i] : i \in 1..Len(log)}
Rpcs == {sent[i].rpc : i \in 1..Len(sent)}
DeployRpcs == {"DeployResourceSpecification", "DeployJobSpecification"}
Names(specs) == [i \in 1..Len(specs) |-> specs[i].name]

Dialled == dialResult # "none"
Registered == registerResponse.cause # "none"
RegisterSucceeded == registerResponse.cause = "nil" /\ registerResponse.success

\* C1: RegisterProject is a gate: once it has returned a transport error or
\* success=false, the session has failed with the registration error, and no
\* DeployResourceSpecification or DeployJobSpecification request was or is sent.
RegisterIsGate ==
    (Registered /\ ~RegisterSucceeded) =>
        /\ pc = "Failed"
        /\ err.msg = "failed to update project configurations"
        /\ Rpcs \cap DeployRpcs = {}
        /\ streams = <<>>

RegisterRefused ==
    /\ registerResponse.cause = "nil"
    /\ ~registerResponse.success
    /\ pc = "Failed"
    /\ sent = <<Request("RegisterProject", 0, <<>>)>>

\* the messages of every stream opened so far
FailedAck(m) == m.ack /\ ~m.success
SeenFailedAck ==
    \E i \in 1..Len(streams) : \E j \in 1..Len(streams[i].msgs) :
        FailedAck(streams[i].msgs[j])
LastMsg == Current.msgs[Len(Current.msgs)]

\* C2: fail-fast on a failed ack: the step that receives an ack with
\* success=false ends the session with the error naming that item and sends
\* nothing, and the session takes no step at all afterwards (no Recv on that
\* stream, no request of any category; after a resource failure, no job request).
FailFastOnFailedAck ==
    [][/\ ~SeenFailedAck
       /\ SeenFailedAck' =>
            /\ pc' = "Failed"
            /\ err' = Error("unable to deploy", "nil", LastMsg'.name, LastMsg'.message)
            /\ sent' = sent]_vars

ResourceFailedAfterSuccess ==
    /\ streams # <<>>
    /\ Current.store # 0
    /\ Len(Current.msgs) = 2
    /\ ~FailedAck(Current.msgs[1])
    /\ FailedAck(Current.msgs[2])
    /\ ~ignoreJobDeployment
    /\ pc = "Failed"

\* C3: categories and datastores run one after the other: at most one response
\* stream is open, every stream but the one opened last has reached
\* end-of-stream, every deploy request but the one sent last has a stream that
\* reached end-of-stream, and once the job request is sent every configured
\* datastore has a stream that reached end-of-stream.
OpenStreams == {i \in 1..Len(streams) : streams[i].end = "open"}
ReachedEOF(s) == \E i \in 1..Len(streams) : streams[i].store = s /\ streams[i].end = "EOF"

StrictlySequential ==
    /\ Cardinality(OpenStreams) <= 1
    /\ \A i \in 1..Len(streams) : i < Len(streams) => streams[i].end = "EOF"
    /\ \A j \in 1..Len(sent) :
         (j < Len(sent) /\ sent[j].rpc \in DeployRpcs) => ReachedEOF(sent[j].store)
    /\ "DeployJobSpecification" \in Rpcs =>
         (~ignoreResources => \A s \in datastoreSpecFs : ReachedEOF(s))
    /\ \A j \in 1..Len(sent) :
         sent[j].rpc = "DeployJobSpecification" => j = Len(sent)

JobsAfterTwoDatastores ==
    /\ ~ignoreResources
    /\ Cardinality(datastoreSpecFs) = 2
    /\ "DeployJobSpecification" \in Rpcs
    /\ Len(streams) = 3

ProgressReceived == recvCount' = recvCount + 1 /\ ~LastMsg'.ack

\* C4: a message with ack=false is only a progress event: the step that
\* receives one, whatever its success flag, leaves the session in the same
\* receive loop with no error and both success counters unchanged.
ProgressNeverTerminates ==
    [][ProgressReceived =>
         /\ pc' = pc
         /\ pc' \in {"ResRecv", "JobRecv"}
         /\ err' = NoErr
         /\ deployCounter' = deployCounter
         /\ jobCounter' = jobCounter]_vars

ReadOnAfterUnsuccessfulProgress ==
    /\ streams # <<>>
    /\ Len(Current.msgs) = 2
    /\ ~Current.msgs[1].ack /\ ~Current.msgs[1].success
    /\ Current.msgs[2].ack /\ Current.msgs[2].success
    /\ Current.store = 0
    /\ jobCounter = 1

SuccessAcks(msgs) == Cardinality({i \in 1..Len(msgs) : msgs[i].ack /\ msgs[i].success})
CurrentCounter == IF Current.store = 0 THEN jobCounter ELSE deployCounter
CurrentBatch == IF Current.store = 0 THEN jobSpecs ELSE resourceSpecs
SecondOfTwoFailed ==
    /\ streams # <<>>
    /\ Len(CurrentBatch) = 2
    /\ Len(Current.msgs) = 2
    /\ Current.msgs[1].ack /\ Current.msgs[1].success /\ Current.msgs[1].name = 1
    /\ FailedAck(Current.msgs[2]) /\ Current.msgs[2].name = 2

\* C5: the counter of the stream being consumed is the number of acks with
\* success=true received on it; after a success ack for item 1 and a failed
\* ack for item 2 of a 2-item batch the error names item 2 and the counter is
\* 1; and in a receive loop, what the loop does with the next message (go on,
\* or return which error) is the same for every value the counter could have.
CounterCountsSuccessAcks ==
    /\ streams # <<>> => CurrentCounter = SuccessAcks(Current.msgs)
    /\ SecondOfTwoFailed => (pc = "Failed" /\ err.name = 2 /\ CurrentCounter = 1)
    /\ pc = "ResRecv" =>
         \A resp \in Responses(Len(resourceSpecs)), c \in 0..MaxRecv :
            /\ OnResourceResponse(resp, c, totalSpecs).ctl
                   = OnResourceResponse(resp, deployCounter, totalSpecs).ctl
            /\ OnResourceResponse(resp, c, totalSpecs).err
                   = OnResourceResponse(resp, deployCounter, totalSpecs).err
    /\ pc = "JobRecv" =>
         \A resp \in Responses(Len(jobSpecs)), c \in 0..MaxRecv :
            /\ OnJobResponse(resp, c, totalJobs).ctl
                   = OnJobResponse(resp, jobCounter, totalJobs).ctl
            /\ OnJobResponse(resp, c, totalJobs).err
                   = OnJobResponse(resp, jobCounter, totalJobs).err

SecondOfTwoResourcesFailed == SecondOfTwoFailed /\ Current.store # 0 /\ deployCounter = 1

PlannedStreams ==
    (IF ignoreResources THEN 0 ELSE Cardinality(datastoreSpecFs))
    + (IF ignoreJobDeployment THEN 0 ELSE 1)

\* the i-th stream answers the request sent after RegisterProject and i-1 deploys
BatchSize(i) == Len(sent[i + 1].items)

AllAcked(i) ==
    LET msgs == streams[i].msgs
    IN /\ streams[i].end = "EOF"
       /\ \A j \in 1..Len(msgs) : msgs[j].ack => msgs[j].success
       /\ \A k \in 1..BatchSize(i) :
            Cardinality({j \in 1..Len(msgs) : msgs[j].ack /\ msgs[j].name = k}) = 1

EverythingAcked ==
    /\ dialResult = "nil"
    /\ RegisterSucceeded
    /\ Len(streams) = PlannedStreams
    /\ \A i \in 1..Len(streams) : AllAcked(i)

RECURSIVE CounterLines(_)
CounterLines(lines) ==
    IF lines = <<>> THEN <<>>
    ELSE IF Head(lines).fmt = "%d/%d. %s successfully deployed"
         THEN <<<<Head(lines).n, Head(lines).total>>>> \o CounterLines(Tail(lines))
         ELSE CounterLines(Tail(lines))

RECURSIVE ExpectedCounters(_)
ExpectedCounters(i) ==
    IF i > Len(streams) THEN <<>>
    ELSE [k \in 1..BatchSize(i) |-> <<k, BatchSize(i)>>] \o ExpectedCounters(i + 1)

Unadaptable(specs) == \E i \in 1..Len(specs) : ~specs[i].adaptable
ResourceRequestsFor(s) ==
    {j \in 1..Len(sent) : sent[j].rpc = "DeployResourceSpecification" /\ sent[j].store = s}
JobRequests == {j \in 1..Len(sent) : sent[j].rpc = "DeployJobSpecification"}

\* C7 as stated: if a resource spec fails to adapt, the session issues no
\* DeployResourceSpecification request at all; if a job spec fails to adapt,
\* no DeployJobSpecification request; a request carries the whole batch.
NoRequestAfterAdaptationError ==
    /\ Unadaptable(resourceSpecs) => "DeployResourceSpecification" \notin Rpcs
    /\ Unadaptable(jobSpecs) => "DeployJobSpecification" \notin Rpcs
    /\ \A j \in ResourceRequestsFor(storeName) : sent[j].items = Names(resourceSpecs)
    /\ \A j \in JobRequests : sent[j].items = Names(jobSpecs)

\* C7 amended: if a resource spec of a datastore fails to adapt, the session
\* fails without a DeployResourceSpecification request for that datastore and
\* without a job request (the requests of the datastores taken before it have
\* been issued); if a job spec fails to adapt, the session fails without a
\* DeployJobSpecification request; a request carries the whole batch.
NoRequestForUnadaptableBatch ==
    /\ Unadaptable(resourceSpecs) =>
         /\ pc = "Failed"
         /\ err.msg = "failed to serialize"
         /\ ResourceRequestsFor(storeName) = {}
         /\ JobRequests = {}
    /\ Unadaptable(jobSpecs) =>
         /\ pc = "Failed"
         /\ err.msg = "failed to serialize"
         /\ JobRequests = {}
    /\ \A j \in ResourceRequestsFor(storeName) : sent[j].items = Names(resourceSpecs)
    /\ \A j \in JobRequests : sent[j].items = Names(jobSpecs)

SecondDatastoreUnadaptable ==
    /\ Unadaptable(resourceSpecs)
    /\ Len(resourceSpecs) = 2
    /\ resourceSpecs[1].adaptable
    /\ "DeployResourceSpecification" \in Rpcs
    /\ pc = "Failed"

DeadlineExceededInDeployment ==
    \/ streams # <<>> /\ Current.end = "DeadlineExceeded"
    \/ err.msg = "deployement failed" /\ err.cause = "DeadlineExceeded"

\* C8: whenever the deployment deadline is exceeded, at the deploy call or in
\* Recv, of the resources or of the jobs, the timeout line is logged.
TimeoutAlwaysReported == DeadlineExceededInDeployment => TimeoutLine \in Lines

\* C9: a failed connect ends the session at once with the connection error
\* and without any request; the unreachable line is logged exactly when the
\* dial failed with deadline exceeded, never for another dial failure nor in a
\* session that connected.
ConnectFailureAborts ==
    /\ (Dialled /\ dialResult # "nil") =>
         /\ pc = "Failed"
         /\ err = Error("dial", dialResult, 0, "")
         /\ sent = <<>>
         /\ streams = <<>>
    /\ (\E i \in 1..Len(log) : log[i] = UnreachableLine) <=> dialResult = "DeadlineExceeded"

DialTimedOut == dialResult = "DeadlineExceeded" /\ pc = "Failed" /\ log = <<UnreachableLine>>

\* the session as the state machine of the design
State ==
    CASE pc \in {"ResLoop", "ResSend", "ResRecv"} -> "DeployingResources"
      [] pc \in {"JobLoad", "JobSend", "JobRecv"} -> "DeployingJobs"
      [] OTHER -> pc

Rank(st) ==
    CASE st = "Idle" -> 0
      [] st = "Connecting" -> 1
      [] st = "RegisteringProject" -> 2
      [] st = "DeployingResources" -> 3
      [] st = "DeployingJobs" -> 4
      [] st = "Completed" -> 5
      [] st = "Failed" -> 6

Ignored(st) ==
    \/ st = "DeployingResources" /\ ignoreResources
    \/ st = "DeployingJobs" /\ ignoreJobDeployment

Order == <<"Idle", "Connecting", "RegisteringProject", "DeployingResources",
           "DeployingJobs", "Completed">>

Fail == Next /\ pc' = "Failed"

\* the session is waiting for the outside world (not just leaving the range loop)
Waiting == ~(pc = "ResLoop" /\ visited = datastoreSpecFs)

\* C10: every step leaves a non-terminal state (Completed and Failed are
\* terminal); a step that does not fail stays or moves forward in the order,
\* passing over only deploying states whose ignore flag is set; Completed is
\* entered only with a successful RegisterProject; and from Connecting,
\* RegisteringProject, DeployingResources and DeployingJobs a failing step is
\* possible.
SessionStateMachine ==
    [][/\ State \notin {"Completed", "Failed"}
       /\ State' # "Failed" =>
            /\ Rank(State') >= Rank(State)
            /\ \A k \in 1..6 :
                 (Rank(State) < Rank(Order[k]) /\ Rank(Order[k]) < Rank(State'))
                     => Ignored(Order[k])
       /\ State' = "Completed" => RegisterSucceeded'
       /\ State' = "Failed" => State # "Idle"
       /\ (State # "Idle" /\ Waiting) => ENABLED Fail]_vars

FailedWhileDeployingJobs ==
    /\ pc = "Failed"
    /\ streams # <<>>
    /\ Current.store = 0
    /\ ~ignoreResources
    /\ datastoreSpecFs # {}

\* the stream being consumed ends now, and some item of its batch has no ack
Unacked(msgs, n) ==
    {k \in 1..n : \A j \in 1..Len(msgs) : ~(msgs[j].ack /\ msgs[j].name = k)}
EndsTooEarly ==
    /\ pc \in {"ResRecv", "JobRecv"}
    /\ streams' = Ended("EOF")
    /\ Unacked(Current.msgs, Len(CurrentBatch)) # {}

\* C17: end-of-stream before every item of the batch has its terminal ack
\* (or before any ack at all) raises no error: the step leaves the receive
\* loop for the next datastore, the jobs or the successful end, with the
\* counter as it was, so a session can complete with a counter below the
\* batch size.
EarlyEndOfStreamIsNoError ==
    [][EndsTooEarly =>
         /\ err' = NoErr
         /\ pc' \in {"ResLoop", "Completed"}
         /\ pc = "JobRecv" => pc' = "Completed"
         /\ deployCounter' = deployCounter
         /\ jobCounter' = jobCounter]_vars

CompletedWithUnackedItems ==
    /\ pc = "Completed"
    /\ err = NoErr
    /\ Len(streams) = 2
    /\ streams[1].msgs = <<>> /\ Len(sent[2].items) = 1
    /\ totalJobs = 1 /\ jobCounter = 0

\* the scheduling of a session: the process runs, every RPC call returns and
\* every stream delivers a message, an error or end-of-stream when read
FairSpec == Spec /\ WF_vars(Next)

Terminated == pc \in {"Completed", "Failed"}
RequestsOf(r) == {i \in 1..Len(sent) : sent[i].rpc = r}

\* C20: under that scheduling every session ends, in overall success or in a
\* reported failure, and at no time has it issued more than one
\* DeployResourceSpecification request for a configured datastore, a request
\* for a datastore that is not configured, or more than one
\* DeployJobSpecification request.
SessionTerminates ==
    /\ <>Terminated
    /\ [](/\ \A i, j \in RequestsOf("DeployResourceSpecification") :
               sent[i].store = sent[j].store => i = j
          /\ \A i \in RequestsOf("DeployResourceSpecification") :
               sent[i].store \in datastoreSpecFs
          /\ Cardinality(RequestsOf("DeployJobSpecification")) <= 1
          /\ pc = "Failed" => err # NoErr
          /\ pc = "Completed" => err = NoErr)

CompletedAfterEveryRequest ==
    /\ pc = "Completed"
    /\ Cardinality(RequestsOf("DeployResourceSpecification")) = 2
    /\ Cardinality(RequestsOf("DeployJobSpecification")) = 1

\* ---- the duration grammar (store/local) ----

\* A text is a sequence of characters.  The characters are those the month
\* expression and the duration syntax tell apart: signs, digits, the month
\* letter, a unit letter and white space.
Chars == {"-", "+", "1", "2", "4", "M", "h", " "}
Strings == UNION {[1..k -> Chars] : k \in 0..MaxLen}
Digit == {"0", "1", "2", "3", "4", "5", "6", "7", "8", "9"}
DigitValue(c) ==
    CASE c = "0" -> 0 [] c = "1" -> 1 [] c = "2" -> 2 [] c = "3" -> 3 [] c = "4" -> 4
      [] c = "5" -> 5 [] c = "6" -> 6 [] c = "7" -> 7 [] c = "8" -> 8 [] c = "9" -> 9

\* a time.Duration is an int64 of nanoseconds.  The only unit the characters
\* can spell is the hour, so a duration is a whole number of hours; it is
\* exact while the hours fit an int64 of nanoseconds, and a product or a sum
\* that does not fit has wrapped around.
MaxHours == 2562047
Hours(h) == [hours |-> h, exact |-> TRUE]
Wrapped == [hours |-> 0, exact |-> FALSE]
Fits(h) == -MaxHours <= h /\ h <= MaxHours
Times(d, n) == IF d.exact /\ Fits(d.hours * n) THEN Hours(d.hours * n) ELSE Wrapped
Plus(d, e) ==
    IF d.exact /\ e.exact /\ Fits(d.hours + e.hours)
    THEN Hours(d.hours + e.hours) ELSE Wrapped
HoursInMonth == 720

\* the value of a run of digits (strconv.Atoi, leadingInt)
RECURSIVE Atoi(_)
Atoi(ds) ==
    IF ds = <<>> THEN 0
    ELSE 10 * Atoi(SubSeq(ds, 1, Len(ds) - 1)) + DigitValue(ds[Len(ds)])

\* the last position of the run of digits that starts at i (i - 1: no digit)
RECURSIVE DigitsEnd(_, _)
DigitsEnd(s, i) ==
    IF i <= Len(s) /\ s[i] \in Digit THEN DigitsEnd(s, i + 1) ELSE i - 1

\* monthExp, (\+|-)?([0-9]+)(M), tried at position i: the sign is taken when
\* there is one, then the whole run of digits, then the letter
MatchAt(s, i) ==
    LET signed == s[i] \in {"+", "-"}
        d == IF signed THEN i + 1 ELSE i
        e == DigitsEnd(s, d)
        ok == e >= d /\ e < Len(s) /\ s[e + 1] = "M"
    IN [ok |-> ok, from |-> i, to |-> e + 1,
        sign |-> IF signed THEN <<s[i]>> ELSE <<>>,
        count |-> IF ok THEN SubSeq(s, d, e) ELSE <<>>]

\* monthExp.FindAllStringSubmatch(str, -1): the leftmost match, then the
\* matches of what follows it
RECURSIVE FindAllStringSubmatch(_, _)
FindAllStringSubmatch(s, i) ==
    IF i > Len(s) THEN <<>>
    ELSE IF MatchAt(s, i).ok
         THEN <<MatchAt(s, i)>> \o FindAllStringSubmatch(s, MatchAt(s, i).to + 1)
         ELSE FindAllStringSubmatch(s, i + 1)

\* the text without the positions in cut
RECURSIVE Without(_, _, _)
Without(s, cut, i) ==
    IF i > Len(s) THEN <<>>
    ELSE (IF i \in cut THEN <<>> ELSE <<s[i]>>) \o Without(s, cut, i + 1)

\* strings.TrimSpace
RECURSIVE TrimSpace(_)
TrimSpace(s) ==
    IF s = <<>> THEN s
    ELSE IF Head(s) = " " THEN TrimSpace(Tail(s))
    ELSE IF s[Len(s)] = " " THEN TrimSpace(SubSeq(s, 1, Len(s) - 1))
    ELSE s

\* the units of time.ParseDuration that the characters can spell, and the
\* last position of the run of unit characters that starts at i
unitMap == {<<"h">>}
RECURSIVE UnitEnd(_, _)
UnitEnd(s, i) ==
    IF i <= Len(s) /\ s[i] \notin Digit THEN UnitEnd(s, i + 1) ELSE i - 1

InvalidDuration == [val |-> Hours(0), err |-> "invalid duration"]

\* the loop of time.ParseDuration over ([0-9]*[a-z]+)+, d being the hours
\* summed so far: digits, then a known unit, and no overflow
RECURSIVE Components(_, _)
Components(s, d) ==
    IF s = <<>> THEN [val |-> Hours(d), err |-> "nil"]
    ELSE IF s[1] \notin Digit THEN InvalidDuration
    ELSE LET e == DigitsEnd(s, 1)
             v == Atoi(SubSeq(s, 1, e))
             u == UnitEnd(s, e + 1)
         IN IF u = e \/ SubSeq(s, e + 1, u) \notin unitMap THEN InvalidDuration
            ELSE IF v > MaxHours \/ d + v > MaxHours THEN InvalidDuration
            ELSE Components(SubSeq(s, u + 1, Len(s)), d + v)

\* time.ParseDuration: [-+]?([0-9]*[a-z]+)+, "0" alone being zero
ParseDuration(s) ==
    LET signed == s # <<>> /\ s[1] \in {"-", "+"}
        body == IF signed THEN Tail(s) ELSE s
        d == Components(body, 0)
    IN IF body = <<"0">> THEN [val |-> Hours(0), err |-> "nil"]
       ELSE IF body = <<>> \/ d.err # "nil" THEN InvalidDuration
       ELSE IF signed /\ s[1] = "-" THEN [val |-> Times(d.val, -1), err |-> "nil"]
       ELSE d

\* a variant that takes a text without a month token for a span of zero
NoMonthToken_ZeroAccepted == [sz |-> Hours(0), err |-> "nil"]
\* the return of tryParsingInMonths when monthExp matches nowhere
NoMonthToken == [sz |-> Hours(0), err |-> "invalid month string"]

\* a variant that forgets the sign
MonthSpan_SignDropped(m) == Times(Hours(HoursInMonth), Atoi(m.count))
\* sz after the first match: HoursInMonth * monthsCount, negated for "-"
MonthSpan(m) ==
    LET sz == Times(Hours(HoursInMonth), Atoi(m.count))
    IN IF m.sign = <<"-">> THEN Times(sz, -1) ELSE sz

\* a variant that strips the first match only
Residual_FirstMatchOnly(s, ms) == TrimSpace(Without(s, ms[1].from..ms[1].to, 1))
\* strings.TrimSpace(monthExp.ReplaceAllString(str, ""))
Residual(s, ms) ==
    TrimSpace(Without(s, UNION {ms[k].from..ms[k].to : k \in 1..Len(ms)}, 1))

\* tryParsingInMonths.  strconv.Atoi cannot fail here: the digits of a text
\* of MaxLen characters are far inside its range.
tryParsingInMonths(s) ==
    LET monthMatches == FindAllStringSubmatch(s, 1)
        sz == MonthSpan(monthMatches[1])
        rest == Residual(s, monthMatches)
        remainingTime == ParseDuration(rest)
    IN IF Len(monthMatches) > 0
       THEN IF Len(rest) > 0
            THEN IF remainingTime.err # "nil"
                 THEN [sz |-> sz, err |-> "failed to parse task configuration"]
                 ELSE [sz |-> Plus(sz, remainingTime.val), err |-> "nil"]
            ELSE [sz |-> sz, err |-> "nil"]
       ELSE NoMonthToken

\* no deployment session is running
SessionAtRest ==
    /\ pc = "Idle"
    /\ ignoreResources = FALSE /\ ignoreJobDeployment = FALSE
    /\ datastoreSpecFs = {}
    /\ visited = {} /\ storeName = 0
    /\ dialResult = "none"
    /\ registerResponse = [cause |-> "none", success |-> FALSE, message |-> ""]
    /\ resourceSpecs = <<>> /\ adaptedSpecs = <<>>
    /\ jobSpecs = <<>> /\ adaptedJobSpecs = <<>>
    /\ deployCounter = 0 /\ totalSpecs = 0
    /\ jobCounter = 0 /\ totalJobs = 0
    /\ err = NoErr /\ log = <<>> /\ sent = <<>> /\ streams = <<>>
    /\ recvCount = 0

\* prepareWindow resolving one non-empty field (size or offset); the text
\* is any text, the empty one included, as the parser itself is asked
GrammarInit ==
    /\ SessionAtRest
    /\ AdapterAtRest
    /\ SurveyAtRest
    /\ str \in Strings
    /\ at = "text"
    /\ months = [sz |-> NoDuration, err |-> "none"]
    /\ duration = [val |-> NoDuration, err |-> "none"]

\* window.Size, err = tryParsingInMonths(conf.Task.Window.Size)
TryParsingInMonths ==
    /\ at = "text"
    /\ months' = tryParsingInMonths(str)
    /\ IF months'.err = "nil"
       THEN /\ duration' = [val |-> months'.sz, err |-> "nil"]
            /\ at' = "done"
       ELSE /\ duration' = duration
            /\ at' = "fallback"
    /\ UNCHANGED <<session, adapter, survey, str>>

\* if err != nil: window.Size, err = time.ParseDuration(...), and the
\* wrapped error of that when it fails too
ParseDurationFallback ==
    /\ at = "fallback"
    /\ duration' = IF ParseDuration(str).err = "nil" THEN ParseDuration(str)
                   ELSE [val |-> Hours(0), err |-> "failed to parse task window"]
    /\ at' = "done"
    /\ UNCHANGED <<session, adapter, survey, str, months>>

GrammarNext == TryParsingInMonths \/ ParseDurationFallback
GrammarSpec == GrammarInit /\ [][GrammarNext]_vars

\* ---- what the claims say of the grammar ----

Resolved == at = "done"
Tokens == FindAllStringSubmatch(str, 1)
Ok(h) == [val |-> Hours(h), err |-> "nil"]
\* sign * digits * 720h, as a time.Duration
SpanOf(token) ==
    Times(Hours(HoursInMonth),
          (IF token.sign = <<"-">> THEN -1 ELSE 1) * Atoi(token.count))
\* the text outside every month token, without surrounding white space
InTokens == {i \in 1..Len(str) : \E k \in 1..Len(Tokens) :
                                    Tokens[k].from <= i /\ i <= Tokens[k].to}
OutsideTokens == TrimSpace(Without(str, InTokens, 1))

\* C11: a text with a month token resolves to sign * digits * 720h of the
\* token, alone when nothing but white space is left outside the token and
\* plus the standard duration of what is left otherwise ("2M" is 1440h,
\* "-1M" is -720h, "1M12h" is 732h); when what is left is no standard
\* duration ("2M h") the field is a parse error that carries no duration,
\* the month span included.
MonthTokenResolves ==
    (Resolved /\ Tokens # <<>>) =>
        LET span == SpanOf(Tokens[1])
            rest == Residual(str, Tokens)
            std == ParseDuration(rest)
        IN /\ rest = <<>> => duration = [val |-> span, err |-> "nil"]
           /\ (rest # <<>> /\ std.err = "nil") =>
                  duration = [val |-> Plus(span, std.val), err |-> "nil"]
           /\ (rest # <<>> /\ std.err # "nil") =>
                  /\ months.err = "failed to parse task configuration"
                  /\ duration = [val |-> Hours(0), err |-> "failed to parse task window"]
           /\ str = <<"2", "M">> => duration = Ok(1440)
           /\ str = <<"-", "1", "M">> => duration = Ok(-720)
           /\ str = <<"1", "M", "1", "2", "h">> => duration = Ok(732)
           /\ str = <<"2", "M", " ", "h">> => duration.err # "nil"

MonthAndHoursResolved ==
    /\ Resolved
    /\ str = <<"1", "M", "1", "2", "h">>
    /\ months = [sz |-> Hours(732), err |-> "nil"]
    /\ duration = Ok(732)

\* C12: a text without a month token is refused by tryParsingInMonths and
\* resolves to what standard duration parsing makes of the whole text, its
\* value or a parse error: "24h" is 24h and the empty text is an error.
NoTokenFallsThrough ==
    (Resolved /\ Tokens = <<>>) =>
        /\ months = [sz |-> Hours(0), err |-> "invalid month string"]
        /\ ParseDuration(str).err = "nil" => duration = ParseDuration(str)
        /\ ParseDuration(str).err # "nil" =>
               duration = [val |-> Hours(0), err |-> "failed to parse task window"]
        /\ str = <<"2", "4", "h">> => duration = Ok(24)
        /\ str = <<"1", "h", "2", "h">> => duration = Ok(3)
        /\ str = <<"-", "4", "h">> => duration = Ok(-4)
        /\ str \in {<<>>, <<"h">>, <<"2", "4">>, <<"M">>, <<" ", "1", "h">>} =>
               duration.err # "nil"

StandardDurationResolved ==
    /\ Resolved
    /\ str = <<"2", "4", "h">>
    /\ months.err = "invalid month string"
    /\ duration = Ok(24)

\* C18: of several month tokens only the first counts, and all of them are
\* stripped: the text resolves to the span of the first token, plus the
\* standard duration of what is left outside all the tokens, without an
\* error for the later ones ("1M2M" is 720h).
OnlyFirstTokenCounts ==
    (Resolved /\ Len(Tokens) > 1) =>
        /\ OutsideTokens = <<>> =>
               duration = [val |-> SpanOf(Tokens[1]), err |-> "nil"]
        /\ (OutsideTokens # <<>> /\ ParseDuration(OutsideTokens).err = "nil") =>
               duration = [val |-> Plus(SpanOf(Tokens[1]), ParseDuration(OutsideTokens).val),
                           err |-> "nil"]
        /\ str = <<"1", "M", "2", "M">> => duration = Ok(720)
        /\ str = <<"1", "M", "-", "2", "M">> => duration = Ok(720)

LaterTokenDropped ==
    /\ Resolved
    /\ str = <<"1", "M", "2", "M">>
    /\ Len(Tokens) = 2
    /\ duration = Ok(720)

\* ---- the job adapter (store/local) ----

\* a date text that matches the pattern of start_date, \d{4}-\d{2}-\d{2}, is
\* its three numbers; the empty text is <<>>
DateTexts == {<<2021, 2, 28>>, <<2020, 2, 29>>, <<2021, 2, 29>>, <<2021, 13, 1>>}
Leap(y) == (y % 4 = 0 /\ y % 100 # 0) \/ y % 400 = 0
DaysIn(y, m) ==
    IF m = 2 THEN (IF Leap(y) THEN 29 ELSE 28)
    ELSE IF m \in {4, 6, 9, 11} THEN 30 ELSE 31
RECURSIVE DaysBefore(_, _)
DaysBefore(y, m) == IF m = 1 THEN 0 ELSE DaysBefore(y, m - 1) + DaysIn(y, m - 1)
RECURSIVE MonthOf(_, _, _)
MonthOf(y, yday, m) ==
    IF yday <= DaysBefore(y, m) + DaysIn(y, m) THEN m ELSE MonthOf(y, yday, m + 1)

\* time.Parse(models.JobDatetimeLayout, text): the day of a year, or an error
\* for a month or a day out of range
ZeroTime == [year |-> 1, yday |-> 1]
TimeParse(t) ==
    IF t[2] \in 1..12 /\ t[3] \in 1..DaysIn(t[1], t[2])
    THEN [time |-> [year |-> t[1], yday |-> DaysBefore(t[1], t[2]) + t[3]], err |-> "nil"]
    ELSE [time |-> ZeroTime, err |-> "parsing time: out of range"]
\* Time.Format(models.JobDatetimeLayout)
TimeFormat(t) ==
    LET m == MonthOf(t.year, t.yday, 1)
    IN <<t.year, m, t.yday - DaysBefore(t.year, m)>>

\* the plugin registries: GetByName finds the unit registered under a name
\* (a handle is <<name>>, nil is <<>>), and Name() of a unit is that name
supportedTaskRepo == {"bq2bq"}
supportedHookRepo == {"transporter", "predator"}
GetByName(repo, name) ==
    IF name \in repo THEN [unit |-> <<name>>, err |-> "nil"]
    ELSE [unit |-> <<>>, err |-> "not found"]
UnitName(unit) == unit[1]

\* models.JobSpecDependencyType and its String()
JobSpecDependencyTypeIntra == "intra"
JobSpecDependencyTypes == {"intra", "inter", "extra"}

\* a variant that keeps whatever the entry says
DependencyType_Verbatim(type) == type
\* the switch on dep.Type, depType starting as intra
DependencyType(type) ==
    IF type \in JobSpecDependencyTypes THEN type ELSE JobSpecDependencyTypeIntra

\* the loop over conf.Dependencies: dependencies[dep.JobName] = {Type: depType}
RECURSIVE AdaptDependencies(_, _)
AdaptDependencies(deps, dependencies) ==
    IF deps = <<>> THEN dependencies
    ELSE AdaptDependencies(Tail(deps),
             [j \in DOMAIN dependencies \cup {Head(deps).JobName} |->
                 IF j = Head(deps).JobName
                 THEN [Type |-> DependencyType(Head(deps).Type)]
                 ELSE dependencies[j]])

\* a variant that leaves out the hooks it cannot resolve
RECURSIVE AdaptHooks_SkipsUnknown(_, _)
AdaptHooks_SkipsUnknown(js, hooks) ==
    IF js = <<>> THEN [hooks |-> hooks, err |-> "nil"]
    ELSE AdaptHooks_SkipsUnknown(Tail(js),
             IF GetByName(supportedHookRepo, Head(js).Name).err # "nil" THEN hooks
             ELSE Append(hooks, [Unit |-> GetByName(supportedHookRepo, Head(js).Name).unit]))
\* the loop over conf.Hooks with JobHook.ToSpec: the first hook that does not
\* resolve ends it
RECURSIVE AdaptHooks(_, _)
AdaptHooks(js, hooks) ==
    IF js = <<>> THEN [hooks |-> hooks, err |-> "nil"]
    ELSE IF GetByName(supportedHookRepo, Head(js).Name).err # "nil"
         THEN [hooks |-> <<>>, err |-> "spec reading error"]
         ELSE AdaptHooks(Tail(js),
                  Append(hooks, [Unit |-> GetByName(supportedHookRepo, Head(js).Name).unit]))

\* a window field through the grammar: tryParsingInMonths, then
\* time.ParseDuration on its error
ResolveDuration(text) ==
    IF tryParsingInMonths(text).err = "nil"
    THEN [val |-> tryParsingInMonths(text).sz, err |-> "nil"]
    ELSE IF ParseDuration(text).err = "nil" THEN ParseDuration(text)
    ELSE [val |-> Hours(0), err |-> "failed to parse task window"]

\* a variant in which a field's text never replaces the default
WindowField_DefaultStays(text, default) == [val |-> default, err |-> "nil"]
\* size and offset: the default, replaced when the field has a text
WindowField(text, default) ==
    IF text # <<>> THEN ResolveDuration(text) ELSE [val |-> default, err |-> "nil"]

\* prepareWindow: a failing size returns before the offset is looked at
prepareWindow(c) ==
    LET truncateTo == IF c.Task.Window.TruncateTo # "" THEN c.Task.Window.TruncateTo
                      ELSE "d"
        size == WindowField(c.Task.Window.Size, Hours(24))
        offset == WindowField(c.Task.Window.Offset, Hours(0))
    IN IF size.err # "nil"
       THEN [window |-> [Size |-> size.val, Offset |-> Hours(0), TruncateTo |-> truncateTo],
             err |-> size.err]
       ELSE [window |-> [Size |-> size.val, Offset |-> offset.val,
                         TruncateTo |-> truncateTo],
             err |-> offset.err]

\* models.JobSpec{}, the zero value
EmptyJobSpec ==
    [Name |-> <<>>, Owner |-> "",
     Schedule |-> [StartDate |-> ZeroTime, EndDate |-> <<>>],
     Behavior |-> [CatchUp |-> FALSE, DependsOnPast |-> FALSE],
     Task |-> [Unit |-> <<>>,
               Window |-> [Size |-> Hours(0), Offset |-> Hours(0), TruncateTo |-> ""]],
     Dependencies |-> <<>>, Hooks |-> <<>>]
Refused(e) == [spec |-> EmptyJobSpec, err |-> e]

\* JobSpecAdapter.ToSpec.  Version, description, interval, labels, assets and
\* the configs are copied as they are and are left out of the job.
ToSpec(c) ==
    LET startDate == TimeParse(c.Schedule.StartDate)
        end == TimeParse(c.Schedule.EndDate)
        hooks == AdaptHooks(c.Hooks, <<>>)
        window == prepareWindow(c)
        execUnit == GetByName(supportedTaskRepo, c.Task.Name)
    IN IF startDate.err # "nil" THEN Refused(startDate.err)
       ELSE IF c.Schedule.EndDate # <<>> /\ end.err # "nil" THEN Refused(end.err)
       ELSE IF hooks.err # "nil" THEN Refused(hooks.err)
       ELSE IF window.err # "nil" THEN Refused(window.err)
       ELSE IF execUnit.err # "nil"
            THEN Refused("spec reading error, failed to find exec unit")
       ELSE [spec |->
                [Name |-> TrimSpace(c.Name), Owner |-> c.Owner,
                 Schedule |-> [StartDate |-> startDate.time,
                               EndDate |-> IF c.Schedule.EndDate # <<>>
                                           THEN <<end.time>> ELSE <<>>],
                 Behavior |-> [CatchUp |-> c.Behavior.Catchup,
                               DependsOnPast |-> c.Behavior.DependsOnPast],
                 Task |-> [Unit |-> execUnit.unit, Window |-> window.window],
                 Dependencies |-> AdaptDependencies(c.Dependencies, <<>>),
                 Hooks |-> hooks.hooks],
             err |-> "nil"]

\* the decimal digits of a natural number
RECURSIVE Itoa(_)
Itoa(n) ==
    LET last == <<CHOOSE c \in Digit : DigitValue(c) = n % 10>>
    IN IF n < 10 THEN last ELSE Itoa(n \div 10) \o last
\* SizeString and OffsetString of the window: the rendering of a duration of
\* whole hours
DurationString(d) ==
    IF d.hours = 0 THEN <<"0", "s">>
    ELSE (IF d.hours < 0 THEN <<"-">> ELSE <<>>)
         \o Itoa(IF d.hours < 0 THEN -d.hours ELSE d.hours)
         \o <<"h", "0", "m", "0", "s">>

\* the orders in which a range over a map can yield its keys
Orders(keys) ==
    {o \in [1..Cardinality(keys) -> keys] :
        \A i, k \in 1..Cardinality(keys) : o[i] = o[k] => i = k}

\* a variant that loses the type of a dependency
FromDependencies_TypeLost(dependencies, order) ==
    [i \in 1..Len(order) |-> [JobName |-> order[i], Type |-> ""]]
\* the range over spec.Dependencies, appending {name, dep.Type.String()}
FromDependencies(dependencies, order) ==
    [i \in 1..Len(order) |->
        [JobName |-> order[i], Type |-> dependencies[order[i]].Type]]

\* Job{}, the zero value
EmptyJob ==
    [Name |-> <<>>, Owner |-> "",
     Schedule |-> [StartDate |-> <<>>, EndDate |-> <<>>],
     Behavior |-> [DependsOnPast |-> FALSE, Catchup |-> FALSE],
     Task |-> [Name |-> "",
               Window |-> [Size |-> <<>>, Offset |-> <<>>, TruncateTo |-> ""]],
     Dependencies |-> <<>>, Hooks |-> <<>>]

\* JobSpecAdapter.FromSpec, the range over the dependencies taking order
FromSpec(spec, order) ==
    IF spec.Task.Unit = <<>> THEN [job |-> EmptyJob, err |-> "exec unit is nil"]
    ELSE [job |->
             [Name |-> spec.Name, Owner |-> spec.Owner,
              Schedule |-> [StartDate |-> TimeFormat(spec.Schedule.StartDate),
                            EndDate |-> IF spec.Schedule.EndDate # <<>>
                                        THEN TimeFormat(spec.Schedule.EndDate[1])
                                        ELSE <<>>],
              Behavior |-> [DependsOnPast |-> spec.Behavior.DependsOnPast,
                            Catchup |-> spec.Behavior.CatchUp],
              Task |-> [Name |-> UnitName(spec.Task.Unit),
                        Window |-> [Size |-> DurationString(spec.Task.Window.Size),
                                    Offset |-> DurationString(spec.Task.Window.Offset),
                                    TruncateTo |-> spec.Task.Window.TruncateTo]],
              Dependencies |-> FromDependencies(spec.Dependencies, order),
              Hooks |-> [i \in 1..Len(spec.Hooks) |->
                            [Name |-> UnitName(spec.Hooks[i].Unit)]]],
          err |-> "nil"]

\* the on-disk jobs: names with and without surrounding white space, dates
\* in and out of the calendar, registered and unregistered plugins, window
\* fields present, absent and malformed, dependency entries of every type
NameTexts == {<<"j", "o", "b">>, <<" ", "j", "o", "b", " ">>}
Owners == {"owner", " owner"}
TaskNames == {"bq2bq", "unregistered"}
HookNames == supportedHookRepo \cup {"unregistered"}
SizeTexts == {<<>>, <<"1", "M">>, <<"2", "h">>, <<"h">>}
OffsetTexts == {<<>>, <<"-", "2", "h">>, <<"M">>}
TruncateTexts == {"", "M"}
TypeTexts == JobSpecDependencyTypes \cup {"", "bogus"}
Lists(n, S) == UNION {[1..k -> S] : k \in 0..n}
DepLists == Lists(MaxDeps, [JobName : {"x", "y"}, Type : TypeTexts])
HookLists == Lists(MaxHooks, [Name : HookNames])
OnDisk(name, owner, schedule, behavior, task, window, deps, hooks) ==
    [Name |-> name, Owner |-> owner, Schedule |-> schedule, Behavior |-> behavior,
     Task |-> [Name |-> task, Window |-> window],
     Dependencies |-> deps, Hooks |-> hooks]
\* the jobs in which the scalar fields and the window vary
PlainJob(c) ==
    \E n \in NameTexts, o \in Owners, t \in TaskNames,
       s \in [StartDate : DateTexts, EndDate : {<<>>, <<2021, 12, 31>>, <<2021, 2, 30>>}],
       b \in [DependsOnPast : BOOLEAN, Catchup : BOOLEAN],
       w \in [Size : SizeTexts, Offset : OffsetTexts, TruncateTo : TruncateTexts] :
        c = OnDisk(n, o, s, b, t, w, <<>>, <<[Name |-> "transporter"]>>)
\* the jobs in which the dependencies and the hooks vary
ListedJob(c) ==
    \E t \in TaskNames, d \in DepLists, h \in HookLists :
        c = OnDisk(<<" ", "j", "o", "b", " ">>, "owner",
                   [StartDate |-> <<2021, 2, 28>>, EndDate |-> <<>>],
                   [DependsOnPast |-> TRUE, Catchup |-> FALSE], t,
                   [Size |-> <<>>, Offset |-> <<>>, TruncateTo |-> ""], d, h)

AdapterInit ==
    /\ SessionAtRest
    /\ GrammarAtRest
    /\ SurveyAtRest
    /\ PlainJob(conf) \/ ListedJob(conf)
    /\ step = "conf"
    /\ job = <<>>
    /\ parsed = <<>>

\* adapter.ToSpec(conf)
CallToSpec ==
    /\ step = "conf"
    /\ job' = ToSpec(conf)
    /\ step' = IF job'.err = "nil" THEN "spec" ELSE "refused"
    /\ UNCHANGED <<session, grammar, survey, conf, parsed>>

\* adapter.FromSpec(spec) on the job ToSpec returned
CallFromSpec ==
    /\ step = "spec"
    /\ \E order \in Orders(DOMAIN job.spec.Dependencies) :
         parsed' = FromSpec(job.spec, order)
    /\ step' = "model"
    /\ UNCHANGED <<session, grammar, survey, conf, job>>

AdapterNext == CallToSpec \/ CallFromSpec
AdapterSpec == AdapterInit /\ [][AdapterNext]_vars

\* ---- what the claims say of the adapter ----

Adapted == step \in {"spec", "model"}
OnDiskWindow == conf.Task.Window
Window == job.spec.Task.Window

\* C13: the window defaults apply field by field.  In a job ToSpec accepted,
\* a size without text is 24h, an offset without text is 0 and a truncate_to
\* without text is "d", whatever the other two fields are; a field with a
\* text has the value of its text ("1M" is 720h, "-2h" is -2h) and never the
\* default; a window without any text is {24h, 0, "d"}, and absent fields
\* are never the reason ToSpec refuses a job.
WindowDefaultsPerField ==
    /\ Adapted =>
        /\ OnDiskWindow.Size = <<>> => Window.Size = Hours(24)
        /\ OnDiskWindow.Size # <<>> => Window.Size = ResolveDuration(OnDiskWindow.Size).val
        /\ OnDiskWindow.Size = <<"1", "M">> => Window.Size = Hours(720)
        /\ OnDiskWindow.Size = <<"2", "h">> => Window.Size = Hours(2)
        /\ OnDiskWindow.Offset = <<>> => Window.Offset = Hours(0)
        /\ OnDiskWindow.Offset = <<"-", "2", "h">> => Window.Offset = Hours(-2)
        /\ OnDiskWindow.Offset # <<>> =>
               Window.Offset = ResolveDuration(OnDiskWindow.Offset).val
        /\ OnDiskWindow.TruncateTo = "" => Window.TruncateTo = "d"
        /\ OnDiskWindow.TruncateTo # "" => Window.TruncateTo = OnDiskWindow.TruncateTo
        /\ OnDiskWindow = [Size |-> <<>>, Offset |-> <<>>, TruncateTo |-> ""] =>
               Window = [Size |-> Hours(24), Offset |-> Hours(0), TruncateTo |-> "d"]
    /\ (step = "refused" /\ job.err = "failed to parse task window") =>
           \/ OnDiskWindow.Size # <<>> /\ ResolveDuration(OnDiskWindow.Size).err # "nil"
           \/ OnDiskWindow.Offset # <<>> /\ ResolveDuration(OnDiskWindow.Offset).err # "nil"

OffsetAloneGiven ==
    /\ Adapted
    /\ OnDiskWindow = [Size |-> <<>>, Offset |-> <<"-", "2", "h">>, TruncateTo |-> ""]
    /\ Window = [Size |-> Hours(24), Offset |-> Hours(-2), TruncateTo |-> "d"]

Entries == conf.Dependencies
EntryNames == {Entries[i].JobName : i \in 1..Len(Entries)}
\* the type text of the last entry that names j
LastType(j) ==
    Entries[CHOOSE i \in 1..Len(Entries) :
                /\ Entries[i].JobName = j
                /\ \A k \in (i + 1)..Len(Entries) : Entries[k].JobName # j].Type
Resolution(type) == IF type \in {"intra", "inter", "extra"} THEN type ELSE "intra"
SetOf(seq) == {seq[i] : i \in 1..Len(seq)}

\* C14 as stated: every job that ToSpec accepts comes back from FromSpec
\* with its name, owner, formatted dates, behavior flags, dependency entries
\* (as a set of {job, type} pairs) and hook names as they were on disk.
RoundTripPreserves ==
    step = "model" =>
        /\ parsed.err = "nil"
        /\ parsed.job.Name = conf.Name
        /\ parsed.job.Owner = conf.Owner
        /\ parsed.job.Schedule = conf.Schedule
        /\ parsed.job.Behavior = conf.Behavior
        /\ SetOf(parsed.job.Dependencies) = SetOf(conf.Dependencies)
        /\ parsed.job.Hooks = conf.Hooks

\* C14: for every job that ToSpec accepts FromSpec succeeds and gives back
\* the owner, the formatted start and end dates, the behavior flags and the
\* hook names as they were, the name without its surrounding white space,
\* and the dependencies as resolved: one entry for each job name, in any
\* order, with the type of the last entry of that name, an empty or unknown
\* type being intra.
RoundTripUpToResolution ==
    step = "model" =>
        /\ parsed.err = "nil"
        /\ parsed.job.Name = TrimSpace(conf.Name)
        /\ parsed.job.Owner = conf.Owner
        /\ parsed.job.Schedule = conf.Schedule
        /\ parsed.job.Behavior = conf.Behavior
        /\ SetOf(parsed.job.Dependencies) =
               {[JobName |-> j, Type |-> Resolution(LastType(j))] : j \in EntryNames}
        /\ Len(parsed.job.Dependencies) = Cardinality(EntryNames)
        /\ parsed.job.Hooks = conf.Hooks
        /\ parsed.job.Task.Name = conf.Task.Name

RoundTripOfUntidyJob ==
    /\ step = "model"
    /\ conf.Name = <<" ", "j", "o", "b", " ">>
    /\ conf.Dependencies = <<[JobName |-> "x", Type |-> "bogus"],
                             [JobName |-> "x", Type |-> "inter"]>>
    /\ conf.Hooks = <<[Name |-> "predator"], [Name |-> "transporter"]>>
    /\ parsed.job.Name = <<"j", "o", "b">>
    /\ parsed.job.Dependencies = <<[JobName |-> "x", Type |-> "inter"]>>

\* C15: a dependency type never makes ToSpec refuse a job (it answers as it
\* does for the same job without dependencies), and in an accepted job the
\* dependency of each job name has the type its entry names when that is
\* intra, inter or extra, and intra when the text is empty or anything else.
DependencyTypeFallback ==
    step # "conf" =>
        /\ job.err = ToSpec([conf EXCEPT !.Dependencies = <<>>]).err
        /\ Adapted =>
            /\ DOMAIN job.spec.Dependencies = EntryNames
            /\ \A j \in EntryNames :
                   /\ LastType(j) = "intra" => job.spec.Dependencies[j].Type = "intra"
                   /\ LastType(j) = "inter" => job.spec.Dependencies[j].Type = "inter"
                   /\ LastType(j) = "extra" => job.spec.Dependencies[j].Type = "extra"
                   /\ LastType(j) \in {"", "bogus"} =>
                          job.spec.Dependencies[j].Type = "intra"

UnknownAndEmptyTypesAdapted ==
    /\ Adapted
    /\ conf.Dependencies = <<[JobName |-> "x", Type |-> "bogus"],
                             [JobName |-> "y", Type |-> ""]>>
    /\ job.spec.Dependencies["x"].Type = "intra"
    /\ job.spec.Dependencies["y"].Type = "intra"

TaskRegistered == conf.Task.Name \in supportedTaskRepo
HooksRegistered == \A i \in 1..Len(conf.Hooks) : conf.Hooks[i].Name \in supportedHookRepo

\* C16: plugin resolution is fail-fast.  When the task or any hook of the
\* job is not registered, ToSpec returns an error with the empty job spec;
\* whenever it returns an error the job spec is the empty one; and a job
\* spec that is not empty has the unit registered under the task's name and,
\* hook by hook, the unit registered under the hook's name.
PluginResolutionFailsFast ==
    step # "conf" =>
        /\ ~(TaskRegistered /\ HooksRegistered) =>
               step = "refused" /\ job.err # "nil" /\ job.spec = EmptyJobSpec
        /\ job.err # "nil" => job.spec = EmptyJobSpec
        /\ job.spec # EmptyJobSpec =>
               /\ job.err = "nil"
               /\ job.spec.Task.Unit = <<conf.Task.Name>>
               /\ TaskRegistered /\ HooksRegistered
               /\ job.spec.Hooks = [i \in 1..Len(conf.Hooks) |->
                                        [Unit |-> <<conf.Hooks[i].Name>>]]

SecondHookUnregistered ==
    /\ step = "refused"
    /\ TaskRegistered
    /\ conf.Hooks = <<[Name |-> "transporter"], [Name |-> "unregistered"]>>
    /\ job = [spec |-> EmptyJobSpec, err |-> "spec reading error"]

\* ---- the hook command (cmd) ----

\* ifHookAlreadyExistsForJob: the hooks of the job are asked for their schema
\* one after the other, failing being the positions whose GetHookSchema call
\* fails; the first failure ends the search with false
RECURSIVE ifHookAlreadyExistsForJob(_, _, _, _)
ifHookAlreadyExistsForJob(hooks, newHookName, failing, i) ==
    IF i > Len(hooks) THEN FALSE
    ELSE IF i \in failing THEN FALSE
    ELSE IF hooks[i] = newHookName THEN TRUE
    ELSE ifHookAlreadyExistsForJob(hooks, newHookName, failing, i + 1)

\* what a run of the survey meets: the error of listing the hooks of the
\* repo, the error of survey.Ask, the answer, the failing schema calls on the
\* job's hooks, and the error of the steps after the test (GetByName,
\* GetHookQuestions, AskHookSurveyQuestion, DefaultHookConfig)
SurveyInputs(hooks) ==
    [listing : {"nil", "GetHookSchema"},
     ask : {"nil", "interrupt"},
     selected : supportedHookRepo,
     failing : SUBSET (1..Len(hooks)),
     later : {"nil", "GetHookQuestions"}]

\* createHookSurvey: every error returns the empty job spec
createHookSurvey(hooks, in) ==
    IF in.listing # "nil"
    THEN [asked |-> FALSE, selected |-> "", hooks |-> <<>>, err |-> in.listing]
    ELSE IF in.ask # "nil"
    THEN [asked |-> FALSE, selected |-> "", hooks |-> <<>>, err |-> in.ask]
    ELSE IF ifHookAlreadyExistsForJob(hooks, in.selected, in.failing, 1)
    THEN [asked |-> TRUE, selected |-> in.selected, hooks |-> <<>>,
          err |-> "hook already exists for this job"]
    ELSE IF in.later # "nil"
    THEN [asked |-> TRUE, selected |-> in.selected, hooks |-> <<>>, err |-> in.later]
    ELSE [asked |-> TRUE, selected |-> in.selected,
          hooks |-> Append(hooks, in.selected), err |-> "nil"]

Distinct(hooks) == \A i, k \in 1..Len(hooks) : hooks[i] = hooks[k] => i = k

\* a job whose hooks are distinct, and the command at its prompt
SurveyInit ==
    /\ SessionAtRest
    /\ GrammarAtRest
    /\ AdapterAtRest
    /\ jobSpecHooks \in {h \in Lists(MaxHooks, supportedHookRepo) : Distinct(h)}
    /\ surveyPc = "prompt"
    /\ surveyed = NotSurveyed
    /\ surveys = 0

\* selectJobSurvey or jobSpecRepo.GetByName fails: the run returns the error
LoadJobFails ==
    /\ surveyPc = "prompt"
    /\ surveys < MaxSurveys
    /\ surveys' = surveys + 1
    /\ surveyed' = NotSurveyed
    /\ UNCHANGED <<session, grammar, adapter, jobSpecHooks, surveyPc>>

\* the job is loaded and createHookSurvey runs on it
CreateHookSurvey ==
    /\ surveyPc = "prompt"
    /\ surveys < MaxSurveys
    /\ surveys' = surveys + 1
    /\ \E in \in SurveyInputs(jobSpecHooks) :
         surveyed' = createHookSurvey(jobSpecHooks, in)
    /\ surveyPc' = "surveyed"
    /\ UNCHANGED <<session, grammar, adapter, jobSpecHooks>>

\* createHookSurvey returned an error: the run returns it without saving
ReturnSurveyError ==
    /\ surveyPc = "surveyed"
    /\ surveyed.err # "nil"
    /\ surveyPc' = "prompt"
    /\ UNCHANGED <<session, grammar, adapter, jobSpecHooks, surveyed, surveys>>

\* jobSpecRepo.Save(jobSpec) of the job the survey returned, or its error
Save ==
    /\ surveyPc = "surveyed"
    /\ surveyed.err = "nil"
    /\ \E saved \in BOOLEAN :
         jobSpecHooks' = IF saved THEN surveyed.hooks ELSE jobSpecHooks
    /\ surveyPc' = "prompt"
    /\ UNCHANGED <<session, grammar, adapter, surveyed, surveys>>

SurveyNext == LoadJobFails \/ CreateHookSurvey \/ ReturnSurveyError \/ Save
SurveySpec == SurveyInit /\ [][SurveyNext]_vars

\* ---- what the claims say of the hook command ----

\* C19: a job that starts with distinct hooks never has two hooks of the
\* same schema name, in the repository or in what the survey returns, and a
\* survey in which a hook the job already has is selected returns the
\* "already exists" error with the empty job spec, a failing GetHookSchema
\* call on a hook of the job included.
HooksStayDistinct ==
    /\ Distinct(jobSpecHooks)
    /\ Distinct(surveyed.hooks)
    /\ (surveyPc = "surveyed" /\ surveyed.asked
        /\ \E i \in 1..Len(jobSpecHooks) : jobSpecHooks[i] = surveyed.selected) =>
           /\ surveyed.err = "hook already exists for this job"
           /\ surveyed.hooks = <<>>
====
